---- MODULE Spec2Model ----
(***************************************************************************)
(* Model of the Phase 1C signals backend (src/main.py): the in-memory      *)
(* signal store, the validation / classification pipeline of the ingest    *)
(* handler, and the approve / reject / get handlers, as run by one asyncio *)
(* event loop (a handler runs without interruption between its awaits).    *)
(*                                                                         *)
(* Numbers: a Python float is modelled as a record [nan, v] where v counts *)
(* hundredths (2.0 is F(200)); NaN is a value of its own, and every        *)
(* comparison with it is false, as in IEEE 754.                            *)
(***************************************************************************)
EXTENDS Integers, Sequences, FiniteSets, Bags, TLC

\* ------------------------------------------------------------------ bounds
\* Number of distinct outcomes of uuid4()[:8] the model lets the generator draw.
MaxIds == 2
\* Number of ingests that get as far as reading the clock.
MaxTime == 2
\* Number of ingest handlers that may be suspended on the notification at once.
MaxAwaiting == 1
\* Largest confidence determine_status is called with on its own.
MaxConfidence == 12

\* -------------------------------------------------------- program constants
\* RR_RATIO_MIN = 1.5, in hundredths.
RR_RATIO_MIN == 150
\* The literal 2.0 of determine_status, in hundredths.
RR_AUTO_APPROVE == 200
CONFIDENCE_AUTO_APPROVE == 8
CONFIDENCE_PENDING == 6
\* len(data) > 500 in log_signal.
LOG_CAP == 500

APPROVED_ASSETS ==
    { "BTC", "BTCUSD", "BTCUSDT", "XBT", "XBTUSD",
      "ETH", "ETHUSD", "ETHUSDT",
      "XRP", "XRPUSD", "XRPUSDT",
      "ADA", "ADAUSD", "ADAUSDT",
      "SOL", "SOLUSD", "SOLUSDT",
      "DOGE", "DOGEUSD", "DOGEUSDT",
      "LTC", "LTCUSD", "LTCUSDT",
      "BNB", "BNBUSD", "BNBUSDT",
      "AVAX", "AVAXUSD", "AVAXUSDT",
      "FTM", "FTMUSD", "FTMUSDT" }

\* ------------------------------------------------------------ JSON values
\* A value of the request's JSON object: a finite number (in hundredths), the
\* number NaN (json.loads accepts the NaN literal), a string, null, or a key
\* that is not in the object at all.
Num(n) == [t |-> "num", n |-> n, s |-> ""]
NaNLit == [t |-> "nan", n |-> 0, s |-> ""]
Str(s) == [t |-> "str", n |-> 0, s |-> s]
Null == [t |-> "null", n |-> 0, s |-> ""]
Absent == [t |-> "absent", n |-> 0, s |-> ""]

\* ----------------------------------------------------------------- floats
F(n) == [nan |-> FALSE, v |-> n]
NaN == [nan |-> TRUE, v |-> 0]

FLt(a, b) == ~a.nan /\ ~b.nan /\ a.v < b.v
FLe(a, b) == ~a.nan /\ ~b.nan /\ a.v <= b.v
FGt(a, b) == FLt(b, a)
FGe(a, b) == FLe(b, a)

\* Truth value of a float in `x if a and b else y`: 0.0 is false, NaN is true.
Truthy(a) == a.nan \/ a.v # 0

Abs(n) == IF n < 0 THEN -n ELSE n

\* abs(a - b) on floats.
FAbsDiff(a, b) == IF a.nan \/ b.nan THEN NaN ELSE F(Abs(a.v - b.v))

\* The strings the model's payloads use that float() parses, with their values.
NumericStrings == { "8", "2.5" }
StrToFloat(s) == CASE s = "8" -> F(800)
                   [] s = "2.5" -> F(250)
                   [] OTHER -> NaN
\* Those among them that int() parses (int("2.5") raises ValueError).
IntegerStrings == { "8" }
StrToInt(s) == CASE s = "8" -> 8
                 [] OTHER -> 0

\* float(x): [ok, val]; ok is FALSE where Python raises TypeError (None) or
\* ValueError (a string that is no number).
ToFloat(x) ==
    CASE x.t = "num" -> [ok |-> TRUE, val |-> F(x.n)]
      [] x.t = "nan" -> [ok |-> TRUE, val |-> NaN]
      [] x.t = "str" /\ x.s \in NumericStrings -> [ok |-> TRUE, val |-> StrToFloat(x.s)]
      [] OTHER -> [ok |-> FALSE, val |-> NaN]

\* Truncation toward zero of n hundredths: int(7.9) = 7, int(-0.5) = 0.
Trunc(n) == IF n >= 0 THEN n \div 100 ELSE -((-n) \div 100)

\* int(x): [ok, val]; int(nan), int("abc"), int("2.5") raise ValueError and
\* int(None) raises TypeError.
ToInt(x) ==
    CASE x.t = "num" -> [ok |-> TRUE, val |-> Trunc(x.n)]
      [] x.t = "str" /\ x.s \in IntegerStrings -> [ok |-> TRUE, val |-> StrToInt(x.s)]
      [] OTHER -> [ok |-> FALSE, val |-> 0]

\* str.upper() on the strings the model's payloads use.
Upper(s) ==
    CASE s = "btc" -> "BTC"
      [] s = "ethusd" -> "ETHUSD"
      [] s = "dogecoin" -> "DOGECOIN"
      [] s = "long" -> "LONG"
      [] s = "short" -> "SHORT"
      [] s = "Short" -> "SHORT"
      [] s = "hold" -> "HOLD"
      [] OTHER -> s

\* ---------------------------------------------------------------- payload
\* The keys of a request's JSON object that the handler reads: the canonical
\* shape's seven fields and the six of the Pine Script webhook shape.
Canonical(asset, signal_type, entry_price, stop_loss, take_profit, rr_ratio, confidence_score) ==
    [ asset |-> asset, signal_type |-> signal_type, entry_price |-> entry_price,
      stop_loss |-> stop_loss, take_profit |-> take_profit, rr_ratio |-> rr_ratio,
      confidence_score |-> confidence_score,
      symbol |-> Absent, side |-> Absent, entry |-> Absent, stop |-> Absent,
      tp1 |-> Absent, score |-> Absent ]

Pine(symbol, side, entry, stop, tp1, score) ==
    [ asset |-> Absent, signal_type |-> Absent, entry_price |-> Absent,
      stop_loss |-> Absent, take_profit |-> Absent, rr_ratio |-> Absent,
      confidence_score |-> Absent,
      symbol |-> symbol, side |-> side, entry |-> entry, stop |-> stop,
      tp1 |-> tp1, score |-> score ]

\* `key in payload`
Has(payload, key) == payload[key].t # "absent"

\* A Python float as the JSON-like value the rebuilt payload holds.
FloatValue(f) == IF f.nan THEN NaNLit ELSE Num(f.v)

\* Round2 that cuts the quotient off after the second decimal.
Round2_Truncates(reward, risk) == (100 * reward) \div risk

\* round(reward / risk, 2) for finite reward >= 0 and risk > 0, both in
\* hundredths: the quotient in hundredths, a tie going to the even neighbour.
Round2(reward, risk) ==
    LET q == (100 * reward) \div risk
        r == (100 * reward) % risk
    IN  IF 2 * r > risk \/ (2 * r = risk /\ q % 2 = 1) THEN q + 1 ELSE q

\* payload.get(key, 0) handed to float()
GetFloat0(payload, key) ==
    IF Has(payload, key) THEN ToFloat(payload[key]) ELSE [ok |-> TRUE, val |-> F(0)]

\* Translate Pine Script webhook format: [crash, payload]. crash is TRUE where
\* float(), int() or .upper() raises, which nothing in the handler catches.
Normalize(payload) ==
    IF ~(Has(payload, "symbol") /\ ~Has(payload, "asset"))
    THEN [crash |-> FALSE, payload |-> payload]
    ELSE
      LET entry == GetFloat0(payload, "entry")
          stop == GetFloat0(payload, "stop")
          tp1 == GetFloat0(payload, "tp1")
          sideOk == ~Has(payload, "side") \/ payload.side.t = "str"
          side == IF Has(payload, "side") THEN Upper(payload.side.s) ELSE "LONG"
          score == IF Has(payload, "score") THEN ToInt(payload.score)
                   ELSE [ok |-> TRUE, val |-> 0]
          risk == IF Truthy(entry.val) /\ Truthy(stop.val)
                  THEN FAbsDiff(entry.val, stop.val) ELSE F(100)
          reward == IF Truthy(tp1.val) /\ Truthy(entry.val)
                    THEN FAbsDiff(tp1.val, entry.val) ELSE F(0)
          rr == IF FGt(risk, F(0))
                THEN (IF reward.nan THEN NaN ELSE F(Round2(reward.v, risk.v)))
                ELSE F(0)
      IN  IF ~(entry.ok /\ stop.ok /\ tp1.ok /\ sideOk /\ score.ok)
          THEN [crash |-> TRUE, payload |-> payload]
          ELSE [crash |-> FALSE,
                payload |-> Canonical(payload.symbol, Str(side),
                                      FloatValue(entry.val), FloatValue(stop.val),
                                      FloatValue(tp1.val), FloatValue(rr),
                                      Num(100 * score.val))]

\* -------------------------------------------------------------- validation
required == << "asset", "signal_type", "entry_price", "stop_loss", "take_profit",
               "rr_ratio", "confidence_score" >>

MissingErrors(payload) ==
    LET absent == SelectSeq(required, LAMBDA f : ~Has(payload, f))
    IN  [i \in 1..Len(absent) |-> [kind |-> "missing", field |-> absent[i]]]

Err(kind) == [kind |-> kind, field |-> ""]

\* The errors of the price block (lines 132-147).
PriceErrors(payload, signal_type) ==
    LET entry == ToFloat(payload.entry_price)
        stop == ToFloat(payload.stop_loss)
        target == ToFloat(payload.take_profit)
    IN  IF ~(entry.ok /\ stop.ok /\ target.ok) THEN << Err("prices_numeric") >>
        ELSE IF signal_type = "LONG"
        THEN (IF FGe(entry.val, target.val) THEN << Err("long_entry_ge_target") >> ELSE << >>)
             \o (IF FLe(entry.val, stop.val) THEN << Err("long_entry_le_stop") >> ELSE << >>)
        ELSE IF signal_type = "SHORT"
        THEN (IF FLe(entry.val, target.val) THEN << Err("short_entry_le_target") >> ELSE << >>)
             \o (IF FGe(entry.val, stop.val) THEN << Err("short_entry_ge_stop") >> ELSE << >>)
        ELSE << >>

RrErrors(payload) ==
    IF ToFloat(payload.rr_ratio).ok THEN << >> ELSE << Err("rr_numeric") >>

RrWarnings(payload) ==
    LET rr == ToFloat(payload.rr_ratio)
    IN  IF rr.ok /\ FLt(rr.val, F(RR_RATIO_MIN)) THEN << "rr_below_minimum" >> ELSE << >>

ConfidenceErrors(payload) ==
    LET confidence == ToInt(payload.confidence_score)
    IN  IF ~confidence.ok THEN << Err("confidence_integer") >>
        ELSE IF confidence.val < 0 \/ confidence.val > 10 THEN << Err("confidence_range") >>
        ELSE << >>

\* SignalProcessor.validate: [crash, valid, errors, warnings]. crash is TRUE
\* where .upper() is called on an asset or signal_type that is no string
\* (AttributeError, which validate does not catch).
validate(payload) ==
    LET missing == MissingErrors(payload)
    IN  IF missing # << >>
        THEN [crash |-> FALSE, valid |-> FALSE, errors |-> missing, warnings |-> << >>]
        ELSE IF payload.asset.t # "str" \/ payload.signal_type.t # "str"
        THEN [crash |-> TRUE, valid |-> FALSE, errors |-> << >>, warnings |-> << >>]
        ELSE
          LET asset == Upper(payload.asset.s)
              signal_type == Upper(payload.signal_type.s)
              errors ==
                   (IF asset \notin APPROVED_ASSETS THEN << Err("watchlist") >> ELSE << >>)
                \o (IF signal_type \notin {"LONG", "SHORT"} THEN << Err("signal_type") >> ELSE << >>)
                \o PriceErrors(payload, signal_type)
                \o RrErrors(payload)
                \o ConfidenceErrors(payload)
          IN  [crash |-> FALSE, valid |-> errors = << >>, errors |-> errors,
               warnings |-> RrWarnings(payload)]

\* determine_status without the gate on the risk-reward ratio.
determine_status_ConfidenceOnly(confidence_score, rr_ratio) ==
    IF confidence_score >= CONFIDENCE_AUTO_APPROVE THEN "APPROVED"
    ELSE IF confidence_score >= CONFIDENCE_PENDING THEN "PENDING"
    ELSE "REJECTED"

\* SignalProcessor.determine_status
determine_status(confidence_score, rr_ratio) ==
    IF confidence_score >= CONFIDENCE_AUTO_APPROVE /\ FGe(rr_ratio, F(RR_AUTO_APPROVE))
    THEN "APPROVED"
    ELSE IF confidence_score >= CONFIDENCE_PENDING THEN "PENDING"
    ELSE "REJECTED"

\* The signal_record built by ingest_signal from a validated payload.
signal_record(payload, signal_id, timestamp) ==
    LET confidence == ToInt(payload.confidence_score).val
        rr_ratio == ToFloat(payload.rr_ratio).val
    IN  [ id |-> signal_id,
          timestamp |-> timestamp,
          asset |-> Upper(payload.asset.s),
          signal_type |-> Upper(payload.signal_type.s),
          entry_price |-> ToFloat(payload.entry_price).val,
          stop_loss |-> ToFloat(payload.stop_loss).val,
          take_profit |-> ToFloat(payload.take_profit).val,
          rr_ratio |-> rr_ratio,
          confidence_score |-> confidence,
          status |-> determine_status(confidence, rr_ratio) ]

\* ----------------------------------------------------------------- inputs
\* Request bodies the clients of the system specification send, one of each
\* class the handler tells apart: accepted and classified APPROVED (the webhook
\* shape of the specification's example), PENDING and REJECTED; accepted with a
\* NaN price and with negative prices and ratio; refused for the direction of
\* its prices, for five rules at once and for missing fields; and raising in
\* validate (null asset) and in the translation (non-numeric entry).
ShortPending == Canonical(Str("ETHUSD"), Str("Short"), Num(200), Num(300), Num(100), Num(100), Num(850))
LongRejected == Canonical(Str("btc"), Str("LONG"), Num(200), Num(100), Num(300), Num(250), Num(500))
LongNaNEntry == Canonical(Str("btc"), Str("long"), NaNLit, Num(100), Num(300), Num(200), Num(700))
LongNegative == Canonical(Str("btc"), Str("long"), Num(-100), Num(-200), Num(100), Num(-100), Num(700))
LongInverted == Canonical(Str("btc"), Str("long"), Num(200), Num(300), Num(100), Num(200), Num(850))
Unlisted == Canonical(Str("dogecoin"), Str("hold"), Str("abc"), Num(100), Num(300), Null, Num(1100))
NoPrices == Canonical(Str("btc"), Str("long"), Absent, Absent, Num(300), Num(200), Num(850))
NullAsset == Canonical(Null, Str("long"), Num(200), Num(100), Num(300), Num(200), Num(850))
PineApproved == Pine(Str("BTCUSD"), Absent, Num(5000000), Num(4900000), Num(5200000), Num(900))
PineBadEntry == Pine(Str("BTCUSD"), Str("long"), Str("abc"), Num(100), Num(300), Num(900))

SystemPayloads ==
    { PineApproved, ShortPending, LongRejected, LongNaNEntry, LongNegative,
      LongInverted, Unlisted, NoPrices, NullAsset, PineBadEntry }

\* ------------------------------------------------------------------ state
VARIABLES
    signals_store,        \* signal id -> signal record
    approval_status,      \* signal id -> status
    signals_log,          \* the JSON list in the SIGNALS_LOG file
    log_writable,         \* reading and writing SIGNALS_LOG succeeds
    telegram_configured,  \* TELEGRAM_BOT_TOKEN != "NOT_CONFIGURED"
    telegram_calls,       \* the signals send_telegram was called with
    awaiting,             \* ingest handlers suspended in `await send_telegram`
    now,                  \* the clock datetime.utcnow() reads
    succeeded,            \* signal id -> the transitions ("approve", "reject") answered 200
    last,                 \* the handler step taken last: its request and response
    call                  \* a function of the module called on its own: input and output

vars == << signals_store, approval_status, signals_log, log_writable, telegram_configured,
           telegram_calls, awaiting, now, succeeded, last, call >>

\* The values of f"SIG-{str(uuid.uuid4())[:8].upper()}", as numbers.
Ids == 1..MaxIds

\* What the generator may return next. The values are interchangeable, so the
\* ones never returned before are taken in order: the next id is any id
\* already in the store (a collision of the 32 random bits) or the first that
\* is not.
NewIds == { signal_id \in Ids :
              \A other \in Ids : other < signal_id => other \in DOMAIN signals_store }

Statuses == { "APPROVED", "PENDING", "REJECTED" }

NoRecord ==
    [ id |-> 0, timestamp |-> 0, asset |-> "", signal_type |-> "",
      entry_price |-> F(0), stop_loss |-> F(0), take_profit |-> F(0),
      rr_ratio |-> F(0), confidence_score |-> 0, status |-> "" ]

NoPayload == Pine(Absent, Absent, Absent, Absent, Absent, Absent)

\* The counts GET /stats reports.
Counts(total, approved, pending, rejected) ==
    [ total_signals |-> total, approved |-> approved, pending |-> pending,
      rejected |-> rejected ]

NoCounts == Counts(0, 0, 0, 0)

\* A handler step as the client sees it. code is the HTTP status (0 while the
\* handler is suspended and has not answered); signal_id is the id of the path
\* or, for ingest, the generated one (0: none); telegram is what became of
\* the send_telegram call of the step, if it made or ended one; counts is the
\* body of a stats response.
Step(op, payload, signal_id, code, detail, errors, status, body) ==
    [ op |-> op, payload |-> payload, signal_id |-> signal_id, code |-> code,
      detail |-> detail, errors |-> errors, status |-> status, body |-> body,
      telegram |-> "", counts |-> NoCounts ]

NoStep == Step("none", NoPayload, 0, 0, "", << >>, "", NoRecord)

\* The event loop is between two handler steps: the step it ran last has been
\* seen through (its response, if any, handed to the transport).
Idle == last = NoStep

\* No function is being called on its own.
NoCall == [fn |-> "none", input |-> << >>, output |-> << >>, done |-> FALSE]

Init ==
    /\ call = NoCall
    /\ signals_store = << >>
    /\ approval_status = << >>
    /\ signals_log = << >>
    /\ log_writable \in BOOLEAN
    /\ telegram_configured \in BOOLEAN
    /\ telegram_calls = {}
    /\ awaiting = EmptyBag
    /\ now = 0
    /\ succeeded = [signal_id \in Ids |-> {}]
    /\ last = NoStep

\* d[k] = v on a Python dict.
Put(d, k, v) == [x \in DOMAIN d \cup {k} |-> IF x = k THEN v ELSE d[x]]

\* Appended with the cap applied as data[:500], which keeps the oldest entries.
Appended_KeepsOldest(data, signal_record_) ==
    LET appended == Append(data, signal_record_)
    IN  IF Len(appended) > LOG_CAP
        THEN SubSeq(appended, 1, LOG_CAP)
        ELSE appended

\* log_signal: the file's list after the call when the write goes through ...
Appended(data, signal_record_) ==
    LET appended == Append(data, signal_record_)
    IN  IF Len(appended) > LOG_CAP
        THEN SubSeq(appended, Len(appended) - LOG_CAP + 1, Len(appended))
        ELSE appended

\* ... and when reading or writing the file raises (the directory is not
\* writable, the file does not hold JSON), which log_signal swallows.
log_signal(data, signal_record_, io_ok) ==
    IF io_ok THEN Appended(data, signal_record_) ELSE data

\* The response with a signal classified REJECTED reported as a failed request.
Accepted_RejectedFails(op, payload, signal_id, status) ==
    IF status = "REJECTED"
    THEN Step(op, payload, 0, 400, "rejected", << >>, status, NoRecord)
    ELSE Step(op, payload, signal_id, 200, "accepted", << >>, status, NoRecord)

\* The response of lines 254-262, from the handler's locals signal_id and status.
Accepted(op, payload, signal_id, status) ==
    Step(op, payload, signal_id, IF status # "REJECTED" THEN 200 ELSE 202,
         "accepted", << >>, status, NoRecord)

\* ---------------------------------------------------------------- handlers
\* The request body as ingest_signal sees it after lines 197-218: the body
\* sent, the canonical payload, and what the checks made of it. failed is TRUE
\* where an exception leaves the handler (HTTP 500).
Checked(payload) ==
    LET norm == Normalize(payload)
        result == validate(norm.payload)
    IN  [ payload |-> payload,
          canonical |-> norm.payload,
          failed |-> norm.crash \/ result.crash,
          valid |-> ~norm.crash /\ ~result.crash /\ result.valid,
          errors |-> IF norm.crash THEN << >> ELSE result.errors ]

SystemRequests == { Checked(payload) : payload \in SystemPayloads }

\* IngestRefused with the refusal reported to the Telegram channel.
IngestRefused_Notifies(requests) ==
    \E request \in requests :
        /\ Idle
        /\ ~request.valid
        /\ last' = IF request.failed
                   THEN Step("ingest", request.payload, 0, 500, "internal_error",
                             << >>, "", NoRecord)
                   ELSE Step("ingest", request.payload, 0, 400, "validation_failed",
                             request.errors, "", NoRecord)
        /\ telegram_calls' = telegram_calls \cup {NoRecord}
        /\ UNCHANGED << signals_store, approval_status, signals_log, log_writable,
                        telegram_configured, awaiting, now, succeeded, call >>

\* POST /signals/ingest up to its first suspension (or its response): a request
\* whose body fails or crashes the checks ...
IngestRefused(requests) ==
    \E request \in requests :
        /\ Idle
        /\ ~request.valid
        /\ last' = IF request.failed
                   THEN Step("ingest", request.payload, 0, 500, "internal_error",
                             << >>, "", NoRecord)
                   ELSE Step("ingest", request.payload, 0, 400, "validation_failed",
                             request.errors, "", NoRecord)
        /\ UNCHANGED << signals_store, approval_status, signals_log, log_writable,
                        telegram_configured, telegram_calls, awaiting, now, succeeded, call >>

\* IngestStored with the writes to the store moved behind the await: with a bot
\* token the record is logged and sent to Telegram while the store has not
\* got it.
IngestStored_NotifiesFirst(requests) ==
    \E request \in requests, signal_id \in NewIds :
        LET rec == signal_record(request.canonical, signal_id, now)
        IN  /\ Idle
            /\ request.valid
            /\ now < MaxTime
            /\ telegram_configured => BagCardinality(awaiting) < MaxAwaiting
            /\ now' = now + 1
            /\ signals_log' = log_signal(signals_log, rec, log_writable)
            /\ telegram_calls' = telegram_calls \cup {rec}
            /\ IF telegram_configured
               THEN /\ UNCHANGED << signals_store, approval_status >>
                    /\ awaiting' = awaiting (+) SetToBag({[signal_id |-> signal_id, status |-> rec.status]})
                    /\ last' = [Step("ingest", request.payload, signal_id, 0, "suspended",
                                     << >>, rec.status, NoRecord)
                                  EXCEPT !.telegram = "pending"]
               ELSE /\ signals_store' = Put(signals_store, signal_id, rec)
                    /\ approval_status' = Put(approval_status, signal_id, rec.status)
                    /\ awaiting' = awaiting
                    /\ last' = [Accepted("ingest", request.payload, signal_id, rec.status)
                                  EXCEPT !.telegram = "not_configured"]
            /\ UNCHANGED << log_writable, telegram_configured, succeeded, call >>

\* ... and one whose body passes them: the record is stored and logged, and
\* send_telegram is called; without a bot token it returns at once, with one the
\* handler is suspended on the HTTP call.
IngestStored(requests) ==
    \E request \in requests, signal_id \in NewIds :
        LET rec == signal_record(request.canonical, signal_id, now)
        IN  /\ Idle
            /\ request.valid
            /\ now < MaxTime
            /\ telegram_configured => BagCardinality(awaiting) < MaxAwaiting
            /\ now' = now + 1
            /\ signals_store' = Put(signals_store, signal_id, rec)
            /\ approval_status' = Put(approval_status, signal_id, rec.status)
            /\ signals_log' = log_signal(signals_log, rec, log_writable)
            /\ telegram_calls' = telegram_calls \cup {rec}
            /\ IF telegram_configured
               THEN /\ awaiting' = awaiting (+) SetToBag({[signal_id |-> signal_id, status |-> rec.status]})
                    /\ last' = [Step("ingest", request.payload, signal_id, 0, "suspended",
                                     << >>, rec.status, NoRecord)
                                  EXCEPT !.telegram = "pending"]
               ELSE /\ awaiting' = awaiting
                    /\ last' = [Accepted("ingest", request.payload, signal_id, rec.status)
                                  EXCEPT !.telegram = "not_configured"]
            /\ UNCHANGED << log_writable, telegram_configured, succeeded, call >>

\* IngestRespond with a notification that was not delivered reported to the
\* caller as a failed request.
IngestRespond_SurfacesFailure ==
    \E task \in BagToSet(awaiting), outcome \in {"sent", "http_error", "exception"} :
        /\ Idle
        /\ awaiting' = awaiting (-) SetToBag({task})
        /\ last' = IF outcome = "sent"
                   THEN [Accepted("ingest_respond", NoPayload, task.signal_id, task.status)
                           EXCEPT !.telegram = outcome]
                   ELSE [Step("ingest_respond", NoPayload, task.signal_id, 502,
                              "notification_failed", << >>, task.status, NoRecord)
                           EXCEPT !.telegram = outcome]
        /\ UNCHANGED << signals_store, approval_status, signals_log, log_writable,
                        telegram_configured, telegram_calls, now, succeeded, call >>

\* IngestRespond with a send_telegram that tries again, for as long as the
\* call is not delivered, before it lets the handler answer.
IngestRespond_Retries ==
    \E task \in BagToSet(awaiting), outcome \in {"sent", "http_error", "exception"} :
        /\ Idle
        /\ IF outcome = "sent"
           THEN /\ awaiting' = awaiting (-) SetToBag({task})
                /\ last' = [Accepted("ingest_respond", NoPayload, task.signal_id, task.status)
                              EXCEPT !.telegram = outcome]
           ELSE /\ awaiting' = awaiting
                /\ last' = [Step("ingest_retry", NoPayload, task.signal_id, 0, "suspended",
                                 << >>, task.status, NoRecord)
                              EXCEPT !.telegram = outcome]
        /\ UNCHANGED << signals_store, approval_status, signals_log, log_writable,
                        telegram_configured, telegram_calls, now, succeeded, call >>

\* send_telegram returns (delivered, refused by Telegram, or an exception such
\* as the 10 s timeout, caught) and the suspended handler answers.
IngestRespond ==
    \E task \in BagToSet(awaiting), outcome \in {"sent", "http_error", "exception"} :
        /\ Idle
        /\ awaiting' = awaiting (-) SetToBag({task})
        /\ last' = [Accepted("ingest_respond", NoPayload, task.signal_id, task.status)
                      EXCEPT !.telegram = outcome]
        /\ UNCHANGED << signals_store, approval_status, signals_log, log_writable,
                        telegram_configured, telegram_calls, now, succeeded, call >>

\* Transition with the pending check left out.
Transition_NoPendingCheck(op, new_status) ==
    \E signal_id \in Ids :
        /\ Idle
        /\ IF signal_id \notin DOMAIN signals_store
           THEN /\ last' = Step(op, NoPayload, signal_id, 404, "not_found", << >>, "", NoRecord)
                /\ UNCHANGED << signals_store, approval_status, signals_log, log_writable,
                                telegram_configured, telegram_calls, awaiting, now, succeeded, call >>
           ELSE /\ approval_status' = [approval_status EXCEPT ![signal_id] = new_status]
                /\ signals_store' = [signals_store EXCEPT ![signal_id].status = new_status]
                /\ last' = Step(op, NoPayload, signal_id, 200, "ok", << >>, new_status, NoRecord)
                /\ succeeded' = [succeeded EXCEPT ![signal_id] = @ \cup {op}]
                /\ UNCHANGED << signals_log, log_writable, telegram_configured,
                                telegram_calls, awaiting, now, call >>

\* Transition with the two checks in the other order: approval_status.get() of
\* an unknown id is None, which is not "PENDING".
Transition_StatusFirst(op, new_status) ==
    \E signal_id \in Ids :
        /\ Idle
        /\ IF signal_id \notin DOMAIN approval_status \/ approval_status[signal_id] # "PENDING"
           THEN /\ last' = Step(op, NoPayload, signal_id, 400, "not_pending", << >>, "", NoRecord)
                /\ UNCHANGED << signals_store, approval_status, signals_log, log_writable,
                                telegram_configured, telegram_calls, awaiting, now, succeeded, call >>
           ELSE /\ approval_status' = [approval_status EXCEPT ![signal_id] = new_status]
                /\ signals_store' = [signals_store EXCEPT ![signal_id].status = new_status]
                /\ last' = Step(op, NoPayload, signal_id, 200, "ok", << >>, new_status, NoRecord)
                /\ succeeded' = [succeeded EXCEPT ![signal_id] = @ \cup {op}]
                /\ UNCHANGED << signals_log, log_writable, telegram_configured,
                                telegram_calls, awaiting, now, call >>

\* Transition that writes the status index and not the record.
Transition_IndexOnly(op, new_status) ==
    \E signal_id \in Ids :
        /\ Idle
        /\ IF signal_id \notin DOMAIN signals_store
           THEN /\ last' = Step(op, NoPayload, signal_id, 404, "not_found", << >>, "", NoRecord)
                /\ UNCHANGED << signals_store, approval_status, signals_log, log_writable,
                                telegram_configured, telegram_calls, awaiting, now, succeeded, call >>
           ELSE IF approval_status[signal_id] # "PENDING"
           THEN /\ last' = Step(op, NoPayload, signal_id, 400, "not_pending", << >>, "", NoRecord)
                /\ UNCHANGED << signals_store, approval_status, signals_log, log_writable,
                                telegram_configured, telegram_calls, awaiting, now, succeeded, call >>
           ELSE /\ approval_status' = [approval_status EXCEPT ![signal_id] = new_status]
                /\ last' = Step(op, NoPayload, signal_id, 200, "ok", << >>, new_status, NoRecord)
                /\ succeeded' = [succeeded EXCEPT ![signal_id] = @ \cup {op}]
                /\ UNCHANGED << signals_store, signals_log, log_writable, telegram_configured,
                                telegram_calls, awaiting, now, call >>

\* POST /signals/{signal_id}/approve and /reject: new_status is the status the
\* handler writes.
Transition(op, new_status) ==
    \E signal_id \in Ids :
        /\ Idle
        /\ IF signal_id \notin DOMAIN signals_store
           THEN /\ last' = Step(op, NoPayload, signal_id, 404, "not_found", << >>, "", NoRecord)
                /\ UNCHANGED << signals_store, approval_status, signals_log, log_writable,
                                telegram_configured, telegram_calls, awaiting, now, succeeded, call >>
           ELSE IF approval_status[signal_id] # "PENDING"
           THEN /\ last' = Step(op, NoPayload, signal_id, 400, "not_pending", << >>, "", NoRecord)
                /\ UNCHANGED << signals_store, approval_status, signals_log, log_writable,
                                telegram_configured, telegram_calls, awaiting, now, succeeded, call >>
           ELSE /\ approval_status' = [approval_status EXCEPT ![signal_id] = new_status]
                /\ signals_store' = [signals_store EXCEPT ![signal_id].status = new_status]
                /\ last' = Step(op, NoPayload, signal_id, 200, "ok", << >>, new_status, NoRecord)
                /\ succeeded' = [succeeded EXCEPT ![signal_id] = @ \cup {op}]
                /\ UNCHANGED << signals_log, log_writable, telegram_configured,
                                telegram_calls, awaiting, now, call >>

approve_signal == Transition("approve", "APPROVED")

reject_signal == Transition("reject", "REJECTED")

\* GET /signals/{signal_id}
get_signal ==
    \E signal_id \in Ids :
        /\ Idle
        /\ last' = IF signal_id \notin DOMAIN signals_store
                   THEN Step("get", NoPayload, signal_id, 404, "not_found", << >>, "", NoRecord)
                   ELSE Step("get", NoPayload, signal_id, 200, "ok", << >>,
                             signals_store[signal_id].status, signals_store[signal_id])
        /\ UNCHANGED << signals_store, approval_status, signals_log, log_writable,
                        telegram_configured, telegram_calls, awaiting, now, succeeded, call >>

\* len([s for s in signals_store.values() if approval_status.get(s["id"]) == status])
CountStatus(status) ==
    Cardinality({ signal_id \in DOMAIN signals_store :
                    /\ signals_store[signal_id].id \in DOMAIN approval_status
                    /\ approval_status[signals_store[signal_id].id] = status })

\* GET /stats
get_stats ==
    /\ Idle
    /\ last' = [Step("stats", NoPayload, 0, 200, "ok", << >>, "", NoRecord)
                  EXCEPT !.counts = Counts(Cardinality(DOMAIN signals_store),
                                           CountStatus("APPROVED"),
                                           CountStatus("PENDING"),
                                           CountStatus("REJECTED"))]
    /\ UNCHANGED << signals_store, approval_status, signals_log, log_writable,
                    telegram_configured, telegram_calls, awaiting, now, succeeded, call >>

\* The event loop returns from the handler step and is ready for the next.
StepDone ==
    /\ ~Idle
    /\ last' = NoStep
    /\ UNCHANGED << signals_store, approval_status, signals_log, log_writable,
                    telegram_configured, telegram_calls, awaiting, now, succeeded, call >>

Next ==
    \/ StepDone
    \/ IngestRefused(SystemRequests)
    \/ IngestStored(SystemRequests)
    \/ IngestRespond
    \/ approve_signal
    \/ reject_signal
    \/ get_signal
    \/ get_stats

Spec == Init /\ [][Next]_vars

\* ---------------------------------------------------------- the scheduler
\* The server under the guarantees its scheduling gives. httpx.AsyncClient is
\* built with timeout=10.0, so the call a handler is suspended on ends, with
\* an answer or with a timeout exception, and the handler becomes ready; the
\* event loop runs ready handlers in the order they became ready, so a handler
\* that is ready again and again is run, whatever other requests keep
\* arriving. The requests are one accepted as PENDING, one accepted as REJECTED
\* and one refused.
LiveRequests == { Checked(ShortPending), Checked(LongRejected), Checked(LongInverted) }

\* What a suspended ingest handler holds on to: its signal_id and status.
Tasks == [signal_id : Ids, status : Statuses]

LiveNext ==
    \/ StepDone
    \/ IngestRefused(LiveRequests)
    \/ IngestStored(LiveRequests)
    \/ IngestRespond
    \/ approve_signal
    \/ reject_signal
    \/ get_signal
    \/ get_stats

LiveSpec ==
    /\ Init
    /\ [][LiveNext]_vars
    /\ WF_vars(StepDone)
    /\ SF_vars(IngestRespond)

\* ------------------------------------------------------- a log file at its cap
\* The server started on a host whose SIGNALS_LOG file is there already: the
\* store is in memory and starts empty, the file holds the records a process
\* before this one logged, one per clock tick before the start. The lengths
\* are those from which the ingests of this process reach and pass the cap
\* of 500, and the empty file.
Earlier(n) == [i \in 1..n |-> signal_record(ShortPending, 1, i - n - 1)]

LogLengths == {0} \cup (LOG_CAP - MaxTime .. LOG_CAP)

LogInit ==
    /\ call = NoCall
    /\ signals_store = << >>
    /\ approval_status = << >>
    /\ signals_log \in { Earlier(n) : n \in LogLengths }
    /\ log_writable \in BOOLEAN
    /\ telegram_configured \in BOOLEAN
    /\ telegram_calls = {}
    /\ awaiting = EmptyBag
    /\ now = 0
    /\ succeeded = [signal_id \in Ids |-> {}]
    /\ last = NoStep

\* One request that is accepted and one that is refused.
LogRequests == { Checked(ShortPending), Checked(LongInverted) }

LogNext ==
    \/ StepDone
    \/ IngestRefused(LogRequests)
    \/ IngestStored(LogRequests)
    \/ IngestRespond

LogSpec == LogInit /\ [][LogNext]_vars

\* ------------------------------------------------- functions on their own
\* A process that has handled no request: every variable of the server as
\* Init leaves it, on a host where the log file can be written and no bot
\* token is set.
Fresh ==
    /\ signals_store = << >>
    /\ approval_status = << >>
    /\ signals_log = << >>
    /\ log_writable = TRUE
    /\ telegram_configured = FALSE
    /\ telegram_calls = {}
    /\ awaiting = EmptyBag
    /\ now = 0
    /\ succeeded = [signal_id \in Ids |-> {}]
    /\ last = NoStep

server == << signals_store, approval_status, signals_log, log_writable, telegram_configured,
            telegram_calls, awaiting, now, succeeded, last >>

\* A call that has not returned yet.
Called(fn, input) == [fn |-> fn, input |-> input, output |-> << >>, done |-> FALSE]

\* The integers and the floats determine_status is called with: confidences on
\* both sides of 0..10, ratios on both sides of 2.0, and NaN.
Confidences == -2..MaxConfidence
Ratios == { NaN, F(-100), F(0), F(100), F(199), F(200), F(201), F(300), F(500) }

ClassifyInit ==
    /\ Fresh
    /\ call \in { Called("determine_status", [confidence_score |-> confidence_score,
                                              rr_ratio |-> rr_ratio]) :
                     confidence_score \in Confidences, rr_ratio \in Ratios }

CallDetermineStatus ==
    /\ call.fn = "determine_status"
    /\ ~call.done
    /\ call' = [call EXCEPT !.output = determine_status(call.input.confidence_score,
                                                        call.input.rr_ratio),
                            !.done = TRUE]
    /\ UNCHANGED server

ClassifySpec == ClassifyInit /\ [][CallDetermineStatus]_vars

\* Webhook payloads for the translation: each field absent or given, prices
\* that are zero, equal, in either order, NaN, and the specification's example
\* (BTCUSD, 50000, 49000, 52000, score 9); 100 / 97 / 102 gives a ratio, 2/3,
\* that has to be rounded.
PinePayloads ==
    { Pine(Str("BTCUSD"), side, entry, stop, tp1, score) :
        side \in { Absent, Str("short") },
        entry \in { Absent, Num(0), Num(10000), Num(5000000), NaNLit },
        stop \in { Absent, Num(0), Num(9700), Num(10000), Num(4900000) },
        tp1 \in { Absent, Num(10200), Num(5200000), NaNLit },
        score \in { Absent, Num(900), Num(870) } }

NormalizeInit ==
    /\ Fresh
    /\ call \in { Called("Normalize", payload) : payload \in PinePayloads }

\* Lines 197-216 on their own.
CallNormalize ==
    /\ call.fn = "Normalize"
    /\ ~call.done
    /\ call' = [call EXCEPT !.output = Normalize(call.input), !.done = TRUE]
    /\ UNCHANGED server

\* The translation on its own, and the server sent the same payload.
NormalizeNext ==
    \/ CallNormalize
    \/ StepDone
    \/ IngestRefused({Checked(call.input)})
    \/ IngestStored({Checked(call.input)})

NormalizeSpec == NormalizeInit /\ [][NormalizeNext]_vars

\* ================================================================== claims
\* What the store holds, records and status index together.
store_unchanged == signals_store' = signals_store /\ approval_status' = approval_status

\* The step just taken is a handler step of the kind op.
Ran(op) == last'.op = op /\ last' # last

\* ----------------------------------------------------------------------- C1
\* C1 (as claimed): in every step, the status of an id that is in the store
\* either stays as it is or goes from PENDING to APPROVED or to REJECTED; the id
\* stays in the store. So a terminal status never changes again, nothing is
\* moved into PENDING, and a status changes at most once.
C1_StatusOnlyLeavesPending ==
    [][ \A signal_id \in DOMAIN signals_store :
          /\ signal_id \in DOMAIN signals_store'
          /\ signal_id \in DOMAIN approval_status'
          /\ \/ approval_status'[signal_id] = approval_status[signal_id]
             \/ /\ approval_status[signal_id] = "PENDING"
                /\ approval_status'[signal_id] \in {"APPROVED", "REJECTED"}
          /\ \/ signals_store'[signal_id].status = signals_store[signal_id].status
             \/ /\ signals_store[signal_id].status = "PENDING"
                /\ signals_store'[signal_id].status \in {"APPROVED", "REJECTED"} ]_vars

\* ----------------------------------------------------------------------- C2
\* The status a transition request writes.
TargetStatus(op) == IF op = "approve" THEN "APPROVED" ELSE "REJECTED"

\* C2: of the approve and the reject requests for one id, at most
\* one is ever answered 200; the one answered 200 has written its status; and
\* when the other is answered, it is answered "not pending" and the status of
\* the id is the one the winner wrote (never PENDING).
C2_ExactlyOneWins ==
    /\ \A signal_id \in Ids : Cardinality(succeeded[signal_id]) <= 1
    /\ last.op \in {"approve", "reject"} /\ last.code = 200 =>
         approval_status[last.signal_id] = TargetStatus(last.op)
    /\ last.op \in {"approve", "reject"} /\ last.code # 200 /\ succeeded[last.signal_id] # {} =>
         /\ last.detail = "not_pending"
         /\ \E winner \in succeeded[last.signal_id] :
              approval_status[last.signal_id] = TargetStatus(winner)

\* ----------------------------------------------------------------------- C3
\* C3: approve or reject of an id in the store whose status is not PENDING is
\* answered 400 "not pending" and changes no record and no status; approve of
\* a PENDING id is answered 200 and leaves the id APPROVED, so that an approve
\* that follows it is the one refused.
C3_NotPendingRefused ==
    [][ \A op \in {"approve", "reject"} :
          Ran(op) /\ last'.signal_id \in DOMAIN signals_store =>
            IF approval_status[last'.signal_id] # "PENDING"
            THEN /\ last'.code = 400
                 /\ last'.detail = "not_pending"
                 /\ store_unchanged
                 /\ succeeded' = succeeded
            ELSE /\ last'.code = 200
                 /\ approval_status'[last'.signal_id] = TargetStatus(op)
                 /\ signals_store'[last'.signal_id].status = approval_status'[last'.signal_id] ]_vars

\* A second approve of an id has just been refused: the first one succeeded,
\* the id is APPROVED, and another record is in the store beside it.
C3_Witness ==
    /\ last.op = "approve" /\ last.code = 400 /\ last.detail = "not_pending"
    /\ succeeded[last.signal_id] = {"approve"}
    /\ approval_status[last.signal_id] = "APPROVED"
    /\ \E other \in DOMAIN signals_store : other # last.signal_id

\* ----------------------------------------------------------------------- C4
\* C4: approve, reject and get of an id that is not in the store are answered
\* 404 "not found" (not 400 "not pending"), and the step changes no record and
\* no status: the id is in neither map afterwards.
C4_UnknownIdNotFound ==
    [][ \A op \in {"approve", "reject", "get"} :
          Ran(op) /\ last'.signal_id \notin DOMAIN signals_store =>
            /\ last'.code = 404
            /\ last'.detail = "not_found"
            /\ store_unchanged
            /\ last'.signal_id \notin DOMAIN signals_store'
            /\ last'.signal_id \notin DOMAIN approval_status' ]_vars

\* reject of an unknown id has been answered 404 while the store holds a
\* PENDING signal under another id.
C4_Witness ==
    /\ last.op = "reject" /\ last.code = 404
    /\ last.signal_id \notin DOMAIN signals_store
    /\ \E other \in DOMAIN signals_store : approval_status[other] = "PENDING"

\* ----------------------------------------------------------------------- C5
\* C5 (as claimed): an ingest step leaves every record and status that is
\* already in the store as it is; when the generated id is already in the
\* store the request is answered with an internal error.
C5_CreateNeverOverwrites ==
    [][ Ran("ingest") =>
          /\ \A signal_id \in DOMAIN signals_store :
               /\ signals_store'[signal_id] = signals_store[signal_id]
               /\ approval_status'[signal_id] = approval_status[signal_id]
          /\ last'.signal_id \in DOMAIN signals_store => last'.code = 500 ]_vars

\* ----------------------------------------------------------------------- C6
\* stop_loss < entry_price < take_profit for LONG, the reverse for SHORT.
Directional(signal_type, entry_price, stop_loss, take_profit) ==
    /\ signal_type = "LONG" => FLt(stop_loss, entry_price) /\ FLt(entry_price, take_profit)
    /\ signal_type = "SHORT" => FLt(take_profit, entry_price) /\ FLt(entry_price, stop_loss)

DirectionalErrors ==
    { Err("long_entry_ge_target"), Err("long_entry_le_stop"),
      Err("short_entry_le_target"), Err("short_entry_ge_stop") }

\* The request gives a direction and three numbers that break its inequality.
BreaksDirection(request) ==
    /\ ~request.failed
    /\ MissingErrors(request.canonical) = << >>
    /\ ToFloat(request.canonical.entry_price).ok
    /\ ToFloat(request.canonical.stop_loss).ok
    /\ ToFloat(request.canonical.take_profit).ok
    /\ ~Directional(Upper(request.canonical.signal_type.s),
                    ToFloat(request.canonical.entry_price).val,
                    ToFloat(request.canonical.stop_loss).val,
                    ToFloat(request.canonical.take_profit).val)

\* C6 (as claimed): every record in the store satisfies the inequality of its
\* direction, and an ingest whose payload breaks it is answered 400 with a
\* directional-consistency error among its errors.
C6_DirectionalInvariant ==
    /\ \A signal_id \in DOMAIN signals_store :
         Directional(signals_store[signal_id].signal_type,
                     signals_store[signal_id].entry_price,
                     signals_store[signal_id].stop_loss,
                     signals_store[signal_id].take_profit)
    /\ last.op = "ingest" /\ BreaksDirection(Checked(last.payload)) =>
         /\ last.code = 400
         /\ \E i \in 1..Len(last.errors) : last.errors[i] \in DirectionalErrors

\* ----------------------------------------------------------------------- C7
\* C7 (as claimed): every record in the store has strictly positive prices, a
\* risk-reward ratio >= 0 and a confidence score among the integers 0..10.
C7_RangesHold ==
    \A signal_id \in DOMAIN signals_store :
        /\ FGt(signals_store[signal_id].entry_price, F(0))
        /\ FGt(signals_store[signal_id].stop_loss, F(0))
        /\ FGt(signals_store[signal_id].take_profit, F(0))
        /\ FGe(signals_store[signal_id].rr_ratio, F(0))
        /\ signals_store[signal_id].confidence_score \in 0..10

\* ----------------------------------------------------------------------- C8
\* classify(confidence_score, rr_ratio) of the request's canonical payload.
Classified(request) ==
    determine_status(ToInt(request.canonical.confidence_score).val,
                     ToFloat(request.canonical.rr_ratio).val)

\* C8: an ingest step whose payload passes validation writes exactly one
\* record, under the generated id, with the status classify gives, in both
\* maps; it answers 200 (202 when the status is REJECTED) with that id and
\* status, at once or, suspended on the notification, in its second step; an
\* ingest answered with a failure is one whose payload did not pass validation.
C8_ValidIngestStored ==
    [][ /\ Ran("ingest") /\ Checked(last'.payload).valid =>
             /\ last'.signal_id \in Ids
             /\ DOMAIN signals_store' = DOMAIN signals_store \cup {last'.signal_id}
             /\ DOMAIN approval_status' = DOMAIN signals_store'
             /\ \A other \in DOMAIN signals_store \ {last'.signal_id} :
                  /\ signals_store'[other] = signals_store[other]
                  /\ approval_status'[other] = approval_status[other]
             /\ signals_store'[last'.signal_id].id = last'.signal_id
             /\ signals_store'[last'.signal_id].status = Classified(Checked(last'.payload))
             /\ approval_status'[last'.signal_id] = Classified(Checked(last'.payload))
             /\ last'.status = Classified(Checked(last'.payload))
             /\ IF telegram_configured
                THEN /\ last'.code = 0
                     /\ BagIn([signal_id |-> last'.signal_id, status |-> last'.status], awaiting')
                ELSE /\ last'.code = (IF last'.status = "REJECTED" THEN 202 ELSE 200)
                     /\ last'.detail = "accepted"
        /\ Ran("ingest_respond") =>
             /\ last'.code = (IF last'.status = "REJECTED" THEN 202 ELSE 200)
             /\ last'.detail = "accepted"
             /\ \E rec \in telegram_calls :
                  /\ rec.id = last'.signal_id
                  /\ rec.status = last'.status
                  /\ rec.status = determine_status(rec.confidence_score, rec.rr_ratio)
        /\ Ran("ingest") /\ last'.code >= 400 => ~Checked(last'.payload).valid ]_vars

\* An ingest classified REJECTED has been answered 202 with its id, and the
\* record is in the store, REJECTED.
C8_Witness ==
    /\ last.op \in {"ingest", "ingest_respond"} /\ last.code = 202
    /\ last.status = "REJECTED"
    /\ last.signal_id \in DOMAIN signals_store
    /\ signals_store[last.signal_id].status = "REJECTED"
    /\ approval_status[last.signal_id] = "REJECTED"

\* ----------------------------------------------------------------------- C9
\* C9: an ingest step whose payload does not pass validation changes no
\* record, no status, not the log and not the calls of the notifier, suspends
\* nothing and returns no signal id; when validation returned its errors, the
\* answer is 400 with exactly that list, which is not empty.
C9_RefusedIngestNoEffect ==
    [][ Ran("ingest") /\ ~Checked(last'.payload).valid =>
          /\ store_unchanged
          /\ signals_log' = signals_log
          /\ telegram_calls' = telegram_calls
          /\ awaiting' = awaiting
          /\ last'.signal_id = 0
          /\ last'.code >= 400
          /\ ~Checked(last'.payload).failed =>
               /\ last'.code = 400
               /\ last'.detail = "validation_failed"
               /\ last'.errors = validate(Normalize(last'.payload).payload).errors
               /\ last'.errors # << >> ]_vars

\* An ingest has been answered 400 with several errors while the store, the
\* log and the notifier's calls were not empty.
C9_Witness ==
    /\ last.op = "ingest" /\ last.code = 400 /\ Len(last.errors) >= 2
    /\ signals_store # << >>
    /\ signals_log # << >>
    /\ telegram_calls # {}

\* ---------------------------------------------------------------------- C10
\* C10 (as claimed): every record ingest has created is in the store under its
\* id with the fields it was created with, the status apart; get of an id in the
\* store returns the record; approve and reject change no other record.
C10_CreatedRecordKept ==
    [][ /\ \A rec \in telegram_calls' :
             /\ rec.id \in DOMAIN signals_store'
             /\ [signals_store'[rec.id] EXCEPT !.status = rec.status] = rec
        /\ Ran("get") /\ last'.signal_id \in DOMAIN signals_store =>
             last'.code = 200 /\ last'.body = signals_store[last'.signal_id]
        /\ \A op \in {"approve", "reject"} :
             Ran(op) =>
               \A other \in DOMAIN signals_store \ {last'.signal_id} :
                   signals_store'[other] = signals_store[other] ]_vars

\* ---------------------------------------------------------------------- C11
\* C11: determine_status returns a status for every integer confidence and
\* every ratio, fixed by its two arguments: APPROVED exactly when the confidence
\* is >= 8 and the ratio is >= 2.0, otherwise PENDING exactly when the
\* confidence is >= 6, otherwise REJECTED; so (8, 2.0) is APPROVED, (7, 3.0)
\* PENDING, (5, 5.0) REJECTED and (9, 1.0) PENDING.
C11_ClassifyTotal ==
    call.fn = "determine_status" /\ call.done =>
        LET confidence == call.input.confidence_score
            rr == call.input.rr_ratio
            gate == confidence >= 8 /\ ~rr.nan /\ rr.v >= 200
        IN  /\ call.output \in Statuses
            /\ call.output = "APPROVED" <=> gate
            /\ call.output = "PENDING" <=> ~gate /\ confidence >= 6
            /\ call.output = "REJECTED" <=> ~gate /\ confidence < 6
            /\ confidence = 8 /\ rr = F(200) => call.output = "APPROVED"
            /\ confidence = 7 /\ rr = F(300) => call.output = "PENDING"
            /\ confidence = 5 /\ rr = F(500) => call.output = "REJECTED"
            /\ confidence = 9 /\ rr = F(100) => call.output = "PENDING"

\* determine_status(9, 1.0) has returned PENDING: the confidence is high, the
\* ratio below 2.0.
C11_Witness ==
    /\ call.fn = "determine_status" /\ call.done
    /\ call.input.confidence_score = 9 /\ call.input.rr_ratio = F(100)
    /\ call.output = "PENDING"

\* ---------------------------------------------------------------------- C12
\* The payload has the webhook shape, which the translation completes, or all
\* the required fields of the canonical one.
Complete(payload) ==
    \/ Has(payload, "symbol") /\ ~Has(payload, "asset")
    \/ MissingErrors(payload) = << >>

\* The asset the payload names, asset or symbol, is not one of the watchlist
\* when upper-cased.
NamesUnlistedAsset(payload) ==
    LET asset == IF Has(payload, "asset") THEN payload.asset ELSE payload.symbol
    IN  /\ asset.t # "absent"
        /\ ~(asset.t = "str" /\ Upper(asset.s) \in APPROVED_ASSETS)

\* C12 (as claimed, for payloads that miss no required field): an ingest whose
\* payload names an asset that is not on the watchlist is answered 400 with the
\* watchlist error in its error list and stores nothing, whatever its other
\* fields are; and the asset of every record in the store is on the watchlist.
C12_UnlistedAssetRefused ==
    [][ /\ Ran("ingest") /\ Complete(last'.payload) /\ NamesUnlistedAsset(last'.payload) =>
             /\ last'.code = 400
             /\ \E i \in 1..Len(last'.errors) : last'.errors[i] = Err("watchlist")
             /\ last'.signal_id = 0
             /\ store_unchanged
        /\ \A signal_id \in DOMAIN signals_store' :
             signals_store'[signal_id].asset \in APPROVED_ASSETS ]_vars

\* ---------------------------------------------------------------------- C13
\* How many of the errors are of one of the kinds.
ErrorsOfKind(errors, kinds) ==
    Cardinality({ i \in 1..Len(errors) : errors[i].kind \in kinds })

\* The value is an integer: a JSON number without a fraction, or a string that
\* spells one.
IsInteger(x) ==
    \/ x.t = "num" /\ x.n % 100 = 0
    \/ x.t = "str" /\ x.s \in IntegerStrings

\* The errors rules 2-6 of the validator call for, rule by rule, as the number
\* of errors of the rule's kinds: one for an asset off the watchlist, one for a
\* direction that is neither LONG nor SHORT, one for prices that are not all
\* numeric or else one for each inequality of the direction that does not
\* hold, one for a ratio that is not numeric, one for a confidence that is no
\* integer or is outside 0..10.
RuleErrors(payload) ==
    LET signal_type == IF payload.signal_type.t = "str"
                       THEN Upper(payload.signal_type.s) ELSE ""
        entry == ToFloat(payload.entry_price)
        stop == ToFloat(payload.stop_loss)
        target == ToFloat(payload.take_profit)
        numeric == entry.ok /\ stop.ok /\ target.ok
        One(broken) == IF broken THEN 1 ELSE 0
    IN  [ watchlist |-> One(NamesUnlistedAsset(payload)),
          signal_type |-> One(signal_type \notin {"LONG", "SHORT"}),
          prices_numeric |-> One(~numeric),
          target_side |->
              One(/\ numeric
                  /\ \/ signal_type = "LONG" /\ ~FLt(entry.val, target.val)
                     \/ signal_type = "SHORT" /\ ~FLt(target.val, entry.val)),
          stop_side |->
              One(/\ numeric
                  /\ \/ signal_type = "LONG" /\ ~FLt(stop.val, entry.val)
                     \/ signal_type = "SHORT" /\ ~FLt(entry.val, stop.val)),
          rr_numeric |-> One(~ToFloat(payload.rr_ratio).ok),
          confidence |->
              One(\/ ~IsInteger(payload.confidence_score)
                  \/ ToInt(payload.confidence_score).val \notin 0..10) ]

\* C13 (as claimed): an ingest of a canonical payload with all required fields
\* is answered with exactly the errors its payload calls for under rules 2-6,
\* all of them in the one list (and is accepted only when there is none); an
\* ingest of a payload that misses required fields is answered with one
\* missing-field error for each and no other error.
C13_AllErrorsCollected ==
    [][ Ran("ingest") /\ Has(last'.payload, "asset") =>
          LET payload == last'.payload
              errors == last'.errors
              due == RuleErrors(payload)
          IN  IF MissingErrors(payload) = << >>
              THEN /\ ErrorsOfKind(errors, {"watchlist"}) = due.watchlist
                   /\ ErrorsOfKind(errors, {"signal_type"}) = due.signal_type
                   /\ ErrorsOfKind(errors, {"prices_numeric"}) = due.prices_numeric
                   /\ ErrorsOfKind(errors, {"long_entry_ge_target", "short_entry_le_target"})
                        = due.target_side
                   /\ ErrorsOfKind(errors, {"long_entry_le_stop", "short_entry_ge_stop"})
                        = due.stop_side
                   /\ ErrorsOfKind(errors, {"rr_numeric"}) = due.rr_numeric
                   /\ ErrorsOfKind(errors, {"confidence_integer", "confidence_range"})
                        = due.confidence
                   /\ ErrorsOfKind(errors, {"missing"}) = 0
                   /\ last'.code = 400 <=> errors # << >>
              ELSE /\ last'.code = 400
                   /\ errors = MissingErrors(payload)
                   /\ \A f \in {"asset", "signal_type", "entry_price", "stop_loss",
                                 "take_profit", "rr_ratio", "confidence_score"} :
                        ~Has(payload, f) <=>
                          \E i \in 1..Len(errors) : errors[i] = [kind |-> "missing", field |-> f] ]_vars

\* ---------------------------------------------------------------------- C14
\* The payload gives a price, a ratio or a confidence, under the name of either
\* shape, that float() does not take for a number.
CarriesNonNumeric(payload) ==
    \E f \in { "entry_price", "stop_loss", "take_profit", "rr_ratio", "confidence_score",
                "entry", "stop", "tp1", "score" } :
        Has(payload, f) /\ ~ToFloat(payload[f]).ok

\* C14 (as claimed): an ingest whose payload, of either shape, carries a
\* non-numeric price, ratio or confidence is answered 400 "validation failed"
\* with a list of errors that is not empty, never with an internal error, and
\* changes no record and no status.
C14_NonNumericStructured ==
    [][ Ran("ingest") /\ CarriesNonNumeric(last'.payload) =>
          /\ last'.code = 400
          /\ last'.detail = "validation_failed"
          /\ last'.errors # << >>
          /\ store_unchanged ]_vars

\* ---------------------------------------------------------------------- C15
\* C15: the record an accepted ingest stores, its status and its answer are
\* fixed by the payload, the generated id and the clock alone: they are the
\* same whether the log file can be written or not, whether a bot token is set
\* or not, and whether the Telegram call delivers, is refused or raises (the
\* timeout); the answer is 200/202 "accepted" in each case, and the step that
\* ends the notification changes neither store nor log.
C15_SideEffectsIsolated ==
    [][ /\ Ran("ingest") /\ Checked(last'.payload).valid =>
             LET signal_id == last'.signal_id
                 rec == signal_record(Checked(last'.payload).canonical, signal_id, now)
             IN  /\ signal_id \in DOMAIN signals_store'
                 /\ signals_store'[signal_id] = rec
                 /\ approval_status'[signal_id] = rec.status
                 /\ last'.status = rec.status
                 /\ last'.code \in {0, 200, 202}
                 /\ last'.code = 0 => telegram_configured
                 /\ last'.code # 0 =>
                      /\ last'.code = (IF rec.status = "REJECTED" THEN 202 ELSE 200)
                      /\ last'.detail = "accepted"
        /\ Ran("ingest_respond") =>
             /\ last'.telegram \in {"sent", "http_error", "exception"}
             /\ last'.code = (IF last'.status = "REJECTED" THEN 202 ELSE 200)
             /\ last'.detail = "accepted"
             /\ BagIn([signal_id |-> last'.signal_id, status |-> last'.status], awaiting)
             /\ store_unchanged
             /\ signals_log' = signals_log ]_vars

\* An ingest has been answered 200 with its signal in the store although the
\* log file could not be written and the Telegram call raised.
C15_Witness ==
    /\ last.op = "ingest_respond" /\ last.telegram = "exception"
    /\ last.code = 200 /\ last.detail = "accepted"
    /\ ~log_writable /\ signals_log = << >>
    /\ last.signal_id \in DOMAIN signals_store
    /\ last.status \in {"APPROVED", "PENDING"}

\* ---------------------------------------------------------------------- C16
\* C16: an ingest handler that is suspended on the notification is resumed and
\* answers its caller 200/202, whatever the Telegram call comes to (the
\* timeout among the outcomes) and whatever other requests are served in
\* between. (An accepted ingest that is not suspended has answered in its
\* first step.)
C16_IngestAnswers ==
    \A task \in Tasks :
        BagIn(task, awaiting) ~>
            /\ last.op = "ingest_respond"
            /\ last.signal_id = task.signal_id
            /\ last.status = task.status
            /\ last.code = (IF task.status = "REJECTED" THEN 202 ELSE 200)

\* A handler whose Telegram call ran into the timeout has answered 202 for its
\* REJECTED signal, and no handler is left suspended.
C16_Witness ==
    /\ last.op = "ingest_respond" /\ last.telegram = "exception"
    /\ last.code = 202 /\ last.status = "REJECTED"
    /\ telegram_configured
    /\ awaiting = EmptyBag

\* ---------------------------------------------------------------------- C17
\* C17: with a log file that can be written, each accepted ingest adds its
\* record at the end of the log, and nothing else changes the log; the log
\* never holds more than 500 entries; the entries before the new one are the
\* most recent of the entries there were, in their order, and when the log was
\* full it is the oldest entry that is gone.
C17_LogKeepsLast500 ==
    [][ LET before == Len(signals_log)
            after == Len(signals_log')
        IN  /\ after <= 500
            /\ IF Ran("ingest") /\ Checked(last'.payload).valid /\ log_writable
               THEN /\ after = (IF before < 500 THEN before + 1 ELSE 500)
                    /\ signals_log'[after] = signals_store'[last'.signal_id]
                    /\ \A i \in 1..(after - 1) :
                         signals_log'[i] = signals_log[before - (after - 1) + i]
               ELSE signals_log' = signals_log ]_vars

\* The log was full at the start and two signals have been accepted since:
\* it holds 500 entries, the two oldest are gone and the newest is the last.
C17_Witness ==
    /\ log_writable
    /\ Len(signals_log) = 500
    /\ signals_log[1].timestamp = -498
    /\ signals_log[499].timestamp = 0
    /\ signals_log[500].timestamp = 1
    /\ now = 2

\* ---------------------------------------------------------------------- C18
\* A field of a webhook payload as the number the translation works with: 0
\* when the field is absent.
Given(payload, key) ==
    IF ~Has(payload, key) THEN F(0)
    ELSE IF payload[key].t = "nan" THEN NaN
    ELSE F(payload[key].n)

\* x is zero or absent.
Unavailable(x) == ~x.nan /\ x.v = 0

\* C18: for a webhook payload with numeric fields the translation gives the
\* canonical payload with the symbol as asset, the three prices, the direction
\* given (LONG when none is), the score as confidence (0 when none is) and
\* rr_ratio = round(reward / risk, 2) when risk > 0, else 0, where risk is
\* |entry - stop|, or 1 when entry or stop is zero or absent, and reward is
\* |tp1 - entry|, or 0 when tp1 or entry is; sent to the server, the payload is
\* stored, if accepted, with these values. The example BTCUSD / 50000 / 49000 /
\* 52000 / 9 gives rr_ratio 2.0 and LONG, and is stored APPROVED.
C18_NormalizerFormula ==
    /\ call.fn = "Normalize" /\ call.done =>
         LET payload == call.input
             out == call.output.payload
             entry == Given(payload, "entry")
             stop == Given(payload, "stop")
             tp1 == Given(payload, "tp1")
             risk == IF Unavailable(entry) \/ Unavailable(stop) THEN F(100)
                     ELSE IF entry.nan \/ stop.nan THEN NaN
                     ELSE F(Abs(entry.v - stop.v))
             reward == IF Unavailable(tp1) \/ Unavailable(entry) THEN F(0)
                       ELSE IF tp1.nan \/ entry.nan THEN NaN
                       ELSE F(Abs(tp1.v - entry.v))
             rr == ToFloat(out.rr_ratio).val
         IN  /\ ~call.output.crash
             /\ MissingErrors(out) = << >>
             /\ out.asset = payload.symbol
             /\ ToFloat(out.entry_price).val = entry
             /\ ToFloat(out.stop_loss).val = stop
             /\ ToFloat(out.take_profit).val = tp1
             /\ out.signal_type = (IF Has(payload, "side") THEN Str("SHORT") ELSE Str("LONG"))
             /\ out.confidence_score =
                  (IF Has(payload, "score") THEN Num(100 * (payload.score.n \div 100)) ELSE Num(0))
             /\ IF risk.nan \/ risk.v <= 0 THEN rr = F(0)
                ELSE IF reward.nan THEN rr.nan
                ELSE /\ ~rr.nan
                     /\ 2 * Abs(rr.v * risk.v - 100 * reward.v) <= risk.v
             /\ payload = PineApproved =>
                  /\ out.rr_ratio = Num(200)
                  /\ out.signal_type = Str("LONG")
                  /\ out.confidence_score = Num(900)
    /\ last.op = "ingest" /\ last.code \in {200, 202} =>
         LET rec == signals_store[last.signal_id]
             out == Normalize(last.payload).payload
         IN  /\ rec.rr_ratio = ToFloat(out.rr_ratio).val
             /\ rec.signal_type = out.signal_type.s
             /\ rec.confidence_score = ToInt(out.confidence_score).val
             /\ rec.status = last.status
             /\ last.payload = PineApproved =>
                  /\ rec.rr_ratio = F(200)
                  /\ rec.signal_type = "LONG"
                  /\ rec.status = "APPROVED"

\* The example has been translated to rr_ratio 2.0 and LONG, and the server,
\* sent the example, has stored it APPROVED.
C18_Witness ==
    /\ call.fn = "Normalize" /\ call.done /\ call.input = PineApproved
    /\ call.output.payload.rr_ratio = Num(200)
    /\ call.output.payload.signal_type = Str("LONG")
    /\ last.op = "ingest" /\ last.payload = PineApproved /\ last.code = 200
    /\ last.signal_id \in DOMAIN signals_store
    /\ signals_store[last.signal_id].status = "APPROVED"
    /\ signals_store[last.signal_id].rr_ratio = F(200)

\* ---------------------------------------------------------------------- C19
\* C19: in the step in which a signal is written to the log or handed to the
\* notifier, the record is in the store under its id with its classified
\* status, in both maps; for as long as a handler is suspended on the
\* notification its signal's id is in both maps, there for get, approve and
\* reject; and the id of every signal ever logged or notified is in the store.
C19_SideEffectsAfterCommit ==
    [][ /\ \A rec \in telegram_calls' \ telegram_calls :
             /\ rec.id \in DOMAIN signals_store'
             /\ signals_store'[rec.id] = rec
             /\ approval_status'[rec.id] = rec.status
             /\ rec.status = determine_status(rec.confidence_score, rec.rr_ratio)
        /\ Len(signals_log') > Len(signals_log) =>
             LET rec == signals_log'[Len(signals_log')]
             IN  /\ rec.id \in DOMAIN signals_store'
                 /\ signals_store'[rec.id] = rec
                 /\ approval_status'[rec.id] = rec.status
        /\ \A task \in BagToSet(awaiting') :
             /\ task.signal_id \in DOMAIN signals_store'
             /\ task.signal_id \in DOMAIN approval_status'
        /\ \A i \in 1..Len(signals_log') : signals_log'[i].id \in DOMAIN signals_store'
        /\ \A rec \in telegram_calls' : rec.id \in DOMAIN signals_store' ]_vars

\* While the handler that ingested a signal is still suspended on the Telegram
\* call, get has returned the signal, which is in the log as well.
C19_Witness ==
    /\ last.op = "get" /\ last.code = 200
    /\ \E task \in BagToSet(awaiting) : task.signal_id = last.signal_id
    /\ last.body \in telegram_calls
    /\ \E i \in 1..Len(signals_log) : signals_log[i] = last.body

\* ---------------------------------------------------------------------- C20
\* C20: in every state a handler can start from, the records and the status
\* index have the same ids, every record is stored under its own id, the
\* status in the index is the status field of the record and is one of
\* APPROVED, PENDING, REJECTED; and the counts a stats request is answered with
\* are the numbers of records of each status and add up to the total.
C20_IndexAgrees ==
    /\ DOMAIN signals_store = DOMAIN approval_status
    /\ \A signal_id \in DOMAIN signals_store :
         /\ signals_store[signal_id].id = signal_id
         /\ approval_status[signal_id] = signals_store[signal_id].status
         /\ approval_status[signal_id] \in {"APPROVED", "PENDING", "REJECTED"}
    /\ last.op = "stats" =>
         /\ last.code = 200
         /\ last.counts.total_signals = Cardinality(DOMAIN signals_store)
         /\ \A status \in {"APPROVED", "PENDING", "REJECTED"} :
              LET count == CASE status = "APPROVED" -> last.counts.approved
                             [] status = "PENDING" -> last.counts.pending
                             [] status = "REJECTED" -> last.counts.rejected
              IN  count = Cardinality({ signal_id \in DOMAIN signals_store :
                                          signals_store[signal_id].status = status })
         /\ last.counts.approved + last.counts.pending + last.counts.rejected
              = last.counts.total_signals

\* stats has reported two signals, one of them APPROVED by an approve request
\* and the other REJECTED, while a handler is suspended on the notification.
C20_Witness ==
    /\ last.op = "stats"
    /\ last.counts = Counts(2, 1, 0, 1)
    /\ \E signal_id \in DOMAIN signals_store : succeeded[signal_id] = {"approve"}
    /\ awaiting # EmptyBag

====
